---- MODULE Spec2Model ----
(***************************************************************************)
(* The FFT section of 05-python-scipy/scipy-basics.ipynb: plot_FFT, the    *)
(* transform cell and the filter cell, over the notebook globals npts, xx, *)
(* f, norm, fk, ofk_r, ofk_i, k, kfreq, fk_r, fk_i and fkinv.              *)
(*                                                                         *)
(* Four specifications share the variables:                                *)
(*   Spec         a setup cell, then plot_FFT or the transform cell and    *)
(*                the filter cell, for every small signal and grid;        *)
(*   TwoToneSpec  the same cells on the notebook's 256-sample two-tone     *)
(*                signal, carried in symbolic form;                        *)
(*   CellsSpec    the six cells of the section in any order;               *)
(*   RunAllSpec   the notebook's code cells from top to bottom, following  *)
(*                the globals sigma, b and r of the Lorenz section.        *)
(*                                                                         *)
(* Arithmetic is exact.  A real scalar of the frequency axis is a rational *)
(* <<n, d>> with d >= 0, where d = 0 stands for the IEEE values +inf       *)
(* (<<1,0>>), -inf (<<-1,0>>) and nan (<<0,0>>) that numpy's float         *)
(* division produces.  A spectrum coefficient (and a transformed sample)   *)
(* is an element of the cyclotomic field Q(zeta_L): a record [L, c, d] of  *)
(* phi(L) integer coefficients c[j+1] of zeta_L^j over a common            *)
(* denominator d, kept in canonical form (reduced modulo the L-th          *)
(* cyclotomic polynomial and to lowest terms), so that equality of records *)
(* is equality of complex numbers.  Floating-point rounding is not         *)
(* modelled: "equal up to rounding" in the notebook is equality here.      *)
(***************************************************************************)
EXTENDS Integers, Sequences, FiniteSets, TLC

\* ------------------------------------------------------------------ bounds
MaxN == 4          \* signals have 0..MaxN samples
MaxSample == 1     \* samples are integers in 0..MaxSample

\* ------------------------------------------------------- integer helpers
Abs(x) == IF x < 0 THEN -x ELSE x

Sign(x) == IF x < 0 THEN -1 ELSE IF x = 0 THEN 0 ELSE 1

RECURSIVE GCD(_, _)
GCD(a, b) == IF b = 0 THEN Abs(a) ELSE GCD(b, a % Abs(b))

LCM(a, b) == (a * b) \div GCD(a, b)

Mod(a, m) == ((a % m) + m) % m

\* an array: the function s over 1..n as a sequence value (evaluated once)
Arr(s) == s \o << >>

\* s[1] + .. + s[n]
RECURSIVE SumTo(_, _)
SumTo(s, n) == IF n = 0 THEN 0 ELSE s[n] + SumTo(s, n - 1)

\* gcd(s[1], .., s[n])
RECURSIVE GCDTo(_, _)
GCDTo(s, n) == IF n = 0 THEN 0 ELSE GCD(s[n], GCDTo(s, n - 1))

\* max(s) for len(s) >= 1
MaxSeq(s) ==
    LET vals == {s[i] : i \in 1..Len(s)}
    IN CHOOSE m \in vals : \A v \in vals : v <= m

\* ------------------------------------------------- floats of the k axis
\* A float as an exact rational <<n, d>>, d >= 0, in lowest terms.
RNorm(n, d) ==
    IF d = 0 THEN <<Sign(n), 0>>
    ELSE LET g == GCD(n, d) IN <<(Sign(d) * n) \div g, Abs(d) \div g>>

RInt(v) == <<v, 1>>

RNaN == <<0, 0>>

RMul(a, b) == RNorm(a[1] * b[1], a[2] * b[2])

\* numpy's float division: x/0.0 is +-inf, 0.0/0.0 is nan, no exception
RDiv(a, b) == RNorm(a[1] * b[2], a[2] * b[1])

\* a > b as floats: every comparison with nan is False
RGt(a, b) == /\ a # RNaN
             /\ b # RNaN
             /\ a[1] * b[2] > b[1] * a[2]

RGe(a, b) == /\ a # RNaN
             /\ b # RNaN
             /\ a[1] * b[2] >= b[1] * a[2]

\* --------------------------------------------------- cyclotomic numbers
\* The field all numbers of an N-sample run live in: it holds zeta_N (the
\* forward transform), zeta_n for n = 2*(N div 2) (the inverse transform's
\* default length) and i (to split a coefficient into .real and .imag).
Level(N) == LCM(4, LCM(IF N < 1 THEN 1 ELSE N,
                       IF N < 2 THEN 1 ELSE 2 * (N \div 2)))

\* polynomials are functions 0..deg -> Int
Deg(p) == Cardinality(DOMAIN p) - 1

RECURSIVE DivLoop(_, _, _, _)
DivLoop(p, q, t, acc) ==
    IF t < 0 THEN acc
    ELSE LET lead == p[t + Deg(q)]
             p2 == [i \in DOMAIN p |->
                      IF i >= t /\ i <= t + Deg(q)
                      THEN p[i] - lead * q[i - t] ELSE p[i]]
         IN DivLoop(p2, q, t - 1, [acc EXCEPT ![t] = lead])

\* exact quotient of p by the monic polynomial q
PolyQuot(p, q) ==
    DivLoop(p, q, Deg(p) - Deg(q), [i \in 0..(Deg(p) - Deg(q)) |-> 0])

RECURSIVE CycloPoly(_)
RECURSIVE DivAll(_, _)
DivAll(p, ds) ==
    IF ds = {} THEN p
    ELSE LET dd == CHOOSE x \in ds : TRUE
         IN DivAll(PolyQuot(p, CycloPoly(dd)), ds \ {dd})

\* Phi_n = (x^n - 1) / prod of Phi_d over the proper divisors d of n
CycloPoly(n) ==
    DivAll([i \in 0..n |-> IF i = n THEN 1 ELSE IF i = 0 THEN -1 ELSE 0],
           {dd \in 1..(n - 1) : n % dd = 0})

RECURSIVE RemLoop(_, _, _)
RemLoop(p, q, t) ==
    IF t < 0 THEN p
    ELSE LET lead == p[t + Deg(q)]
         IN RemLoop([i \in DOMAIN p |->
                       IF i >= t /\ i <= t + Deg(q)
                       THEN p[i] - lead * q[i - t] ELSE p[i]], q, t - 1)

\* zeta_L^t for t = 0..L-1 in the basis 1, zeta_L, .., zeta_L^(phi(L)-1):
\* the remainder of x^t modulo Phi_L
PowersOf(L) ==
    LET q == CycloPoly(L)
    IN [t \in 0..(L - 1) |->
          LET r == RemLoop([i \in 0..(L - 1) |-> IF i = t THEN 1 ELSE 0],
                           q, L - 1 - Deg(q))
          IN [j \in 1..Deg(q) |-> r[j - 1]]]

Levels == {Level(N) : N \in 0..MaxN}

PowTable == [l \in Levels |-> PowersOf(l)]

Phi(L) == Len(PowTable[L][0])

\* the number (sum of v[j] * zeta_L^e[j]) / d in canonical form, d > 0
CNorm(L, v, e, d) ==
    LET vv == Arr(v)
        ee == Arr(e)
        r == Arr([i \in 1..Phi(L) |->
                    SumTo([j \in 1..Len(vv) |->
                             vv[j] * PowTable[L][Mod(ee[j], L)][i]], Len(vv))])
        g == GCD(GCDTo(r, Len(r)), d)
    IN [L |-> L, c |-> Arr([i \in 1..Phi(L) |-> r[i] \div g]), d |-> d \div g]

\* lowest terms of an already reduced coefficient vector
CLow(L, r, d) ==
    LET rr == Arr(r)
        g == GCD(GCDTo(rr, Len(rr)), d)
    IN [L |-> L, c |-> Arr([i \in 1..Len(rr) |-> rr[i] \div g]), d |-> d \div g]

CInt(L, v) ==
    [L |-> L, c |-> Arr([j \in 1..Phi(L) |-> IF j = 1 THEN v ELSE 0]), d |-> 1]

CZero(L) == CInt(L, 0)

\* a times the rational r, r[2] > 0
CScale(a, r) == CLow(a.L, [j \in 1..Len(a.c) |-> a.c[j] * r[1]], a.d * r[2])

\* z.real = (z + conj z)/2 and z.imag = (z - conj z)/(2i), both real
\* numbers of the same field; 1/i = zeta_L^(3L/4)
CRe(a) ==
    LET P == Len(a.c)
    IN CNorm(a.L, a.c \o a.c,
             [j \in 1..(2 * P) |-> IF j <= P THEN j - 1 ELSE -(j - P - 1)],
             2 * a.d)

CIm(a) ==
    LET P == Len(a.c)
        q == (3 * a.L) \div 4
    IN CNorm(a.L, a.c \o [j \in 1..P |-> -a.c[j]],
             [j \in 1..(2 * P) |->
                IF j <= P THEN j - 1 + q ELSE -(j - P - 1) + q],
             2 * a.d)

\* ------------------------------------------------- numpy's transforms
\* np.fft.rfft(f) for len(f) >= 1: F_k = sum_n f_n e^{-2 pi i n k/N},
\* k = 0..N div 2
rfft(s) ==
    LET N == Len(s)
        L == Level(N)
        st == L \div N
    IN Arr([kk \in 1..((N \div 2) + 1) |->
              CNorm(L, s, [j \in 1..N |-> -((j - 1) * (kk - 1) * st)], 1)])

\* a common denominator of F[1..n]
RECURSIVE DenLCM(_, _)
DenLCM(F, n) == IF n = 0 THEN 1 ELSE LCM(F[n].d, DenLCM(F, n - 1))

\* np.fft.irfft(F) for len(F) >= 2, with numpy's default output length
\* n = 2*(len(F) - 1):
\*   y_j = (1/n) (Re F_0 + 2 sum_{0<k<n/2} Re(F_k e^{2 pi i jk/n})
\*                + (-1)^j Re F_{n/2}),
\* so the imaginary parts of the first and the last coefficient are
\* ignored.  Re(z w) is (z w + conj(z w))/2: term q of the sum below is
\* coefficient i of F_k, times zeta^(jk L/n) or conjugated.
irfft(Fk) ==
    LET F == Arr(Fk)
        m == Len(F)
        n == 2 * (m - 1)
        L == F[1].L
        P == Len(F[1].c)
        st == L \div n
        D == DenLCM(F, m)
        kOf(q) == (q - 1) \div (2 * P)
        iOf(q) == ((q - 1) % (2 * P)) \div 2
    IN Arr([j \in 1..n |->
          CNorm(L,
                [q \in 1..(2 * P * m) |->
                   (IF kOf(q) = 0 \/ kOf(q) = m - 1 THEN 1 ELSE 2)
                   * (D \div F[kOf(q) + 1].d) * F[kOf(q) + 1].c[iOf(q) + 1]],
                [q \in 1..(2 * P * m) |->
                   IF (q - 1) % 2 = 0
                   THEN iOf(q) + (j - 1) * kOf(q) * st
                   ELSE -(iOf(q) + (j - 1) * kOf(q) * st)],
                2 * n * D)])

\* np.fft.rfftfreq(n) for n >= 1 (d = 1.0): j/n for j = 0..n div 2
rfftfreq(n) ==
    Arr([j \in 1..((n \div 2) + 1) |-> RDiv(RInt(j - 1), RInt(n))])

\* ---------------------------------------------------- the notebook code
\* the slip of scaling by 1/N, as for a two-sided spectrum
NormFull(n) == RDiv(RInt(1), RInt(n))

\* norm = 2.0/npts
Norm(n) == RDiv(RInt(2), RInt(n))

\* fk = norm*np.fft.rfft(f)
Normalize(F, nrm) == Arr([j \in 1..Len(F) |-> CScale(F[j], nrm)])

\* fk/norm
Denormalize(F, nrm) ==
    Arr([j \in 1..Len(F) |-> CScale(F[j], <<nrm[2], nrm[1]>>)])

\* the slip of taking max(xx) - min(xx) for the length of the domain
KfreqSpan(kk, n, x) ==
    LET len == RInt(MaxSeq(x) - x[1])
    IN Arr([j \in 1..Len(kk) |-> RDiv(RMul(kk[j], RInt(n)), len)])

\* kfreq = k*npts/(max(xx) + xx[1]), for len(xx) >= 2
Kfreq(kk, n, x) ==
    LET len == RInt(MaxSeq(x) + x[2])
    IN Arr([j \in 1..Len(kk) |-> RDiv(RMul(kk[j], RInt(n)), len)])

\* the slip of the mask kfreq >= cutoff
MaskAtOrAbove(kf, cut) == Arr([j \in 1..Len(kf) |-> RGe(kf[j], cut)])

\* the slip of the mask kfreq < cutoff (a high-pass filter)
MaskBelow(kf, cut) == Arr([j \in 1..Len(kf) |-> RGt(cut, kf[j])])

\* the boolean mask kfreq > cutoff (cutoff is 0.4 in the notebook)
Mask(kf, cut) == Arr([j \in 1..Len(kf) |-> RGt(kf[j], cut)])

\* the slip of fk[~mask] = 0.0
LowPassInverted(F, mask) ==
    Arr([j \in 1..Len(F) |-> IF mask[j] THEN F[j] ELSE CZero(F[j].L)])

\* the slip of damping the masked coefficients, fk[mask] *= 0.5
LowPassHalve(F, mask) ==
    Arr([j \in 1..Len(F) |-> IF mask[j] THEN CScale(F[j], <<1, 2>>) ELSE F[j]])

\* fk[mask] = 0.0, for len(mask) = len(fk)
LowPass(F, mask) ==
    Arr([j \in 1..Len(F) |-> IF mask[j] THEN CZero(F[j].L) ELSE F[j]])

\* the slip of leaving out .copy(): a view, which follows the array it
\* was taken from
Shared(old, now) == now

\* x.copy() (lines 966-967): an array of its own, which keeps the value old
\* it was created with whatever the array it was copied from holds now
Copied(old, now) == old

Real(F) == Arr([j \in 1..Len(F) |-> CRe(F[j])])

Imag(F) == Arr([j \in 1..Len(F) |-> CIm(F[j])])

\* ---------------------------------------------------------------- state
VARIABLES
    npts,      \* global npts
    xx,        \* global xx: the sample coordinates
    f,         \* global f: the samples
    norm,      \* global norm
    fk,        \* global fk: the spectrum, overwritten by the filter cell
    ofk_r,     \* global ofk_r: copy of fk.real taken by the transform cell
    ofk_i,     \* global ofk_i: copy of fk.imag taken by the transform cell
    k,         \* global k
    kfreq,     \* global kfreq
    cutoff,    \* the threshold of the filter cell's last run (0.4)
    fk_r,      \* global fk_r
    fk_i,      \* global fk_i
    fkinv,     \* global fkinv
    bound,     \* the names among the above that a cell has assigned
    pc,        \* the last cell that ran: "setup", "transform", "filter"
    err,       \* the exception that stopped the last cell, "" if none
    plot,      \* the locals of plot_FFT and its exception, when the last
               \* cell that ran was a call of it
    sigma,     \* global sigma
    b,         \* global b
    r,         \* global r
    cell,      \* top-to-bottom run: the number of code cells executed
    call,      \* top-to-bottom run: the library call in progress within
               \* the current cell (solve_ivp, or the 1st..3rd
               \* optimize.root), 0 when none is
    nev        \* the evaluations of rhs the call in progress has made

\* the globals of the Lorenz section and the position of the run
lorenz == <<sigma, b, r, cell, call, nev>>

vars == <<npts, xx, f, norm, fk, ofk_r, ofk_i, k, kfreq, cutoff,
          fk_r, fk_i, fkinv, bound, pc, err, plot, sigma, b, r, cell, call,
          nev>>

\* the value of a name that no cell has assigned
Unbound == "unbound"

\* a kernel in which no cell of the Lorenz section has run
NoLorenz ==
    /\ sigma = Unbound
    /\ b = Unbound
    /\ r = Unbound
    /\ cell = 0
    /\ call = 0
    /\ nev = 0

\* the grids: <<first coordinate, spacing>>
Grids == {<<0, 1>>, <<0, 2>>, <<1, 1>>, <<0, 0>>, <<0, -1>>}

\* thresholds for the filter cell; the notebook's is 0.4
Cutoffs == {<<-1, 1>>, <<0, 1>>, <<1, 4>>, <<2, 5>>}

\* xx = np.linspace(x0, x0 + n*dx, n, endpoint=False)
Grid(n, x0, dx) == Arr([i \in 1..n |-> x0 + (i - 1) * dx])

NoPlot == [called |-> FALSE, err |-> "", npts |-> 0, norm |-> RNaN,
           fk |-> << >>, fk_r |-> << >>, fk_i |-> << >>, k |-> << >>,
           kfreq |-> << >>, fkinv |-> << >>]

\* the state after a cell "npts = ...; xx, f = ..." (lines 814-815, 940-942)
Init ==
    /\ npts \in 0..MaxN
    /\ \E g \in Grids : xx = Grid(npts, g[1], g[2])
    /\ f \in [1..npts -> 0..MaxSample]
    /\ norm = RNaN
    /\ fk = << >>
    /\ ofk_r = << >>
    /\ ofk_i = << >>
    /\ k = << >>
    /\ kfreq = << >>
    /\ cutoff = RNaN
    /\ fk_r = << >>
    /\ fk_i = << >>
    /\ fkinv = << >>
    /\ bound = {"npts", "xx", "f"}
    /\ pc = "setup"
    /\ err = ""
    /\ plot = NoPlot
    /\ NoLorenz

\* the slip of guarding the empty signal with a bare "return": the call
\* comes back without an exception and without results
plot_FFT_silent(x, s) ==
    LET n == Len(x)
        nrm == Norm(n)
        F == Normalize(rfft(s), nrm)
        kk == rfftfreq(n)
        kf == Kfreq(kk, n, x)
        inv == irfft(Denormalize(F, nrm))
        atFk == [NoPlot EXCEPT !.called = TRUE, !.npts = n]
        atKfreq == [atFk EXCEPT !.norm = nrm, !.fk = F, !.fk_r = Real(F),
                                !.fk_i = Imag(F), !.k = kk]
        atInv == [atKfreq EXCEPT !.kfreq = kf]
        atPlot == [atInv EXCEPT !.fkinv = inv]
    IN IF Len(s) = 0 \/ n = 0 THEN atFk
       ELSE IF n < 2 THEN [atKfreq EXCEPT !.err = "IndexError"]
       ELSE IF Len(F) < 2 THEN [atInv EXCEPT !.err = "ValueError"]
       ELSE IF Len(inv) # n THEN [atPlot EXCEPT !.err = "ValueError"]
       ELSE atPlot

\* plot_FFT(xx, f): the locals at the point the call returns or raises
plot_FFT(x, s) ==
    LET n == Len(x)
        nrm == Norm(n)
        F == Normalize(rfft(s), nrm)
        kk == rfftfreq(n)
        kf == Kfreq(kk, n, x)
        inv == irfft(Denormalize(F, nrm))
        atFk == [NoPlot EXCEPT !.called = TRUE, !.npts = n]
        atKfreq == [atFk EXCEPT !.norm = nrm, !.fk = F, !.fk_r = Real(F),
                                !.fk_i = Imag(F), !.k = kk]
        atInv == [atKfreq EXCEPT !.kfreq = kf]
        atPlot == [atInv EXCEPT !.fkinv = inv]
    IN IF Len(s) = 0 THEN [atFk EXCEPT !.err = "ValueError"]          \* 745
       ELSE IF n = 0 THEN [atFk EXCEPT !.err = "ZeroDivisionError"]   \* 754
       ELSE IF n < 2 THEN [atKfreq EXCEPT !.err = "IndexError"]       \* 769
       ELSE IF Len(F) < 2 THEN [atInv EXCEPT !.err = "ValueError"]    \* 772
       ELSE IF Len(inv) # n THEN [atPlot EXCEPT !.err = "ValueError"] \* 798
       ELSE atPlot

\* a cell "plot_FFT(xx, f)" (lines 816, 854, 892)
PlotFFT ==
    /\ err = ""
    /\ pc = "setup"
    /\ plot' = plot_FFT(xx, f)
    /\ UNCHANGED <<npts, xx, f, norm, fk, ofk_r, ofk_i, k, kfreq, cutoff,
                   fk_r, fk_i, fkinv, bound, pc, err>>
    /\ UNCHANGED lorenz

\* the statements of the transform cell (lines 960-981)
RunTransform ==
    /\ pc' = "transform"
    /\ plot' = NoPlot
    /\ UNCHANGED <<npts, xx, f, cutoff, fk_r, fk_i, fkinv>>
    /\ UNCHANGED lorenz
    /\ IF npts = 0
       THEN /\ err' = "ZeroDivisionError"                             \* 963
            /\ UNCHANGED <<norm, fk, ofk_r, ofk_i, k, kfreq, bound>>
       ELSE /\ norm' = Norm(npts)
            /\ IF Len(f) = 0
               THEN /\ err' = "ValueError"                            \* 964
                    /\ bound' = bound \cup {"norm"}
                    /\ UNCHANGED <<fk, ofk_r, ofk_i, k, kfreq>>
               ELSE /\ fk' = Normalize(rfft(f), norm')
                    /\ ofk_r' = Real(fk')
                    /\ ofk_i' = Imag(fk')
                    /\ IF Len(xx) = 0
                       THEN /\ err' = "ZeroDivisionError"             \* 970
                            /\ bound' = bound \cup
                                   {"norm", "fk", "ofk_r", "ofk_i"}
                            /\ UNCHANGED <<k, kfreq>>
                       ELSE /\ k' = rfftfreq(Len(xx))
                            /\ IF Len(xx) < 2
                               THEN /\ err' = "IndexError"            \* 976
                                    /\ bound' = bound \cup
                                         {"norm", "fk", "ofk_r", "ofk_i", "k"}
                                    /\ UNCHANGED kfreq
                               ELSE /\ kfreq' = Kfreq(k', npts, xx)
                                    /\ err' = ""
                                    /\ bound' = bound \cup
                                         {"norm", "fk", "ofk_r", "ofk_i",
                                          "k", "kfreq"}

\* the transform cell, run right after a setup cell
TransformCell ==
    /\ err = ""
    /\ pc = "setup"
    /\ RunTransform

\* the statements of the filter cell (lines 997-1007) with threshold cut
RunFilter(cut) ==
    /\ {"fk", "kfreq", "norm", "xx"} \subseteq bound
    /\ pc' = "filter"
    /\ cutoff' = cut
    /\ plot' = NoPlot
    /\ UNCHANGED <<npts, xx, f, norm, k, kfreq>>
    /\ UNCHANGED lorenz
    /\ IF Len(kfreq) # Len(fk)
       THEN /\ err' = "IndexError"                                    \* 997
            /\ UNCHANGED <<fk, ofk_r, ofk_i, fk_r, fk_i, fkinv, bound>>
       ELSE /\ fk' = LowPass(fk, Mask(kfreq, cut))
            /\ ofk_r' = Copied(ofk_r, Real(fk'))
            /\ ofk_i' = Copied(ofk_i, Imag(fk'))
            /\ fk_r' = Real(fk')
            /\ fk_i' = Imag(fk')
            /\ IF Len(fk') < 2
               THEN /\ err' = "ValueError"                            \* 1005
                    /\ bound' = bound \cup {"fk_r", "fk_i"}
                    /\ UNCHANGED fkinv
               ELSE /\ fkinv' = irfft(Denormalize(fk', norm))
                    /\ bound' = bound \cup {"fk_r", "fk_i", "fkinv"}
                    /\ err' = IF Len(fkinv') # Len(xx)
                              THEN "ValueError" ELSE ""               \* 1007

\* the filter cell, run after cells that ended without an exception
FilterCell(cut) ==
    /\ err = ""
    /\ RunFilter(cut)

Filter == \E cut \in Cutoffs : FilterCell(cut)

Next == PlotFFT \/ TransformCell \/ Filter

Spec == Init /\ [][Next]_vars

\* ------------------------------------------- the two-tone scenario
\* The cells of lines 940-1007 on the notebook's own signal, npts = 256.
\* Its samples are not integers and its spectrum lies in Q(zeta_256), out of
\* reach of rfft and irfft above, so the scenario carries the signal in
\* symbolic form: sample i of a two-tone signal is
\*    Re(a e^{2 pi i p/npts}) + Re(b e^{2 pi i q/npts}),
\* the record [a, p, b, q] with a, b in Q(i).  The notebook's signal
\* 0.5*(sin(2 pi f_0 x) + sin(2 pi f_1 x)) has a = b = -i/2.
TwoToneN == 256

\* f_0*xmax and f_1*xmax: the tones make 10 and 25 turns over the domain
Turns0 == 10

Turns1 == 25

\* xmax = 10.0/f_0 = 50, as a rational
XMax == <<50, 1>>

\* Q(i), the field of the tones' amplitudes
ToneLevel == Level(0)

\* the complex amplitudes (u + v i)/2 with u, v in -1..1, not both 0
ToneAmps ==
    {CNorm(ToneLevel, <<uv[1], uv[2]>>, <<0, ToneLevel \div 4>>, 2) :
        uv \in ((-1..1) \X (-1..1)) \ {<<0, 0>>}}

\* -i/2: the amplitude of 0.5*sin
HalfSine == CNorm(ToneLevel, <<-1>>, <<ToneLevel \div 4>>, 2)

\* two_freq_sine(npts) for tones of amplitudes amp0, amp1: xx in units of
\* xmax/npts (xx[i] = i - 1 stands for (i - 1)*xmax/npts) and the samples
two_freq_sine(n, amp0, amp1) ==
    [xx |-> Grid(n, 0, 1),
     f |-> Arr([i \in 1..n |->
                  [a |-> amp0, p |-> (Turns0 * (i - 1)) % n,
                   b |-> amp1, q |-> (Turns1 * (i - 1)) % n]])]

\* norm*np.fft.rfft(f) for a two-tone signal of n > 2*Turns1 samples: by the
\* orthogonality of the e^{2 pi i jk/n}, bin Turns0 is a, bin Turns1 is b
\* and every other bin is 0
ToneSpectrum(s) ==
    Arr([j \in 1..((Len(s) \div 2) + 1) |->
           IF j = Turns0 + 1 THEN s[1].a
           ELSE IF j = Turns1 + 1 THEN s[1].b
           ELSE CZero(ToneLevel)])

\* np.fft.irfft(fk/norm) for a spectrum that is 0 outside the two tones'
\* bins: the two-tone signal of 2*(len(fk) - 1) samples with the amplitudes
\* of the two bins
ToneSignal(F) ==
    two_freq_sine(2 * (Len(F) - 1), F[Turns0 + 1], F[Turns1 + 1]).f

\* the slip of leaving out the factor npts
KfreqPerSample(kk, n, x, unit) ==
    LET len == RInt(MaxSeq(x) + x[2])
    IN Arr([j \in 1..Len(kk) |-> RDiv(RDiv(kk[j], len), unit)])

\* kfreq = k*npts/(max(xx) + xx[1]) for coordinates x counted in the given
\* unit: the divisor is unit*(max(x) + x[2])
KfreqIn(kk, n, x, unit) ==
    LET kf == Kfreq(kk, n, x)
    IN Arr([j \in 1..Len(kk) |-> RDiv(kf[j], unit)])

\* the state after the two-tone setup cell (lines 940-944)
TwoToneInit ==
    /\ npts = TwoToneN
    /\ \E amp0 \in ToneAmps, amp1 \in ToneAmps :
          /\ xx = two_freq_sine(npts, amp0, amp1).xx
          /\ f = two_freq_sine(npts, amp0, amp1).f
    /\ norm = RNaN
    /\ fk = << >>
    /\ ofk_r = << >>
    /\ ofk_i = << >>
    /\ k = << >>
    /\ kfreq = << >>
    /\ cutoff = RNaN
    /\ fk_r = << >>
    /\ fk_i = << >>
    /\ fkinv = << >>
    /\ bound = {"npts", "xx", "f"}
    /\ pc = "setup"
    /\ err = ""
    /\ plot = NoPlot
    /\ NoLorenz

\* the transform cell (lines 960-981) on the two-tone signal
TwoToneTransform ==
    /\ err = ""
    /\ pc = "setup"
    /\ pc' = "transform"
    /\ norm' = Norm(npts)
    /\ fk' = ToneSpectrum(f)
    /\ ofk_r' = Real(fk')
    /\ ofk_i' = Imag(fk')
    /\ k' = rfftfreq(Len(xx))
    /\ kfreq' = KfreqIn(k', npts, xx, RDiv(XMax, RInt(npts)))
    /\ bound' = bound \cup {"norm", "fk", "ofk_r", "ofk_i", "k", "kfreq"}
    /\ err' = ""
    /\ UNCHANGED <<npts, xx, f, cutoff, fk_r, fk_i, fkinv, plot>>
    /\ UNCHANGED lorenz

\* the filter cell (lines 997-1007) on the two-tone spectrum
TwoToneFilter ==
    /\ err = ""
    /\ pc = "transform"
    /\ pc' = "filter"
    /\ cutoff' = <<2, 5>>
    /\ fk' = LowPass(fk, Mask(kfreq, cutoff'))
    /\ ofk_r' = Copied(ofk_r, Real(fk'))
    /\ ofk_i' = Copied(ofk_i, Imag(fk'))
    /\ fk_r' = Real(fk')
    /\ fk_i' = Imag(fk')
    /\ fkinv' = ToneSignal(fk')
    /\ bound' = bound \cup {"fk_r", "fk_i", "fkinv"}
    /\ err' = IF Len(fkinv') # Len(xx) THEN "ValueError" ELSE ""
    /\ UNCHANGED <<npts, xx, f, norm, k, kfreq, plot>>
    /\ UNCHANGED lorenz

TwoToneNext == TwoToneTransform \/ TwoToneFilter

TwoToneSpec == TwoToneInit /\ [][TwoToneNext]_vars

\* ------------------------------------- the cells of the FFT section
\* The six cells of the section, run in any order and any number of times.
\* The notebook's sizes 128 and 256 are scaled to the range of the exact
\* arithmetic: two even sizes within MaxN, the second twice the first.
SingleToneN == 2 * (MaxN \div 4)

TwoToneSmallN == 4 * (MaxN \div 4)

\* single_freq_sine, single_freq_cosine, single_freq_sine_plus_shift and
\* two_freq_sine on that scale: the grid of n points on [0, TwoToneSmallN)
\* without its endpoint, and for the samples a stand-in, amp times a 0/1
\* pattern that tells the four signals apart
Sampled(kind, n, amp) ==
    [xx |-> Grid(n, 0, TwoToneSmallN \div n),
     f |-> Arr([i \in 1..n |->
                  amp * (CASE kind = "sine" -> (i - 1) % 2
                           [] kind = "cosine" -> i % 2
                           [] kind = "sine_plus_shift" -> 1
                           [] OTHER -> IF 2 * i <= n THEN 1 ELSE 0)])]

\* the slip of declaring plot_FFT's names global: the assignment inside
\* the function rebinds the notebook's global
PlotGlobal(global, value) == value

\* an assignment inside plot_FFT (lines 742-772) binds a local name: the
\* global of the same name keeps its value
PlotLocal(global, value) == global

\* the state of a kernel in which no cell of the section has run
CellsInit ==
    /\ npts = 0
    /\ xx = << >>
    /\ f = << >>
    /\ norm = RNaN
    /\ fk = << >>
    /\ ofk_r = << >>
    /\ ofk_i = << >>
    /\ k = << >>
    /\ kfreq = << >>
    /\ cutoff = RNaN
    /\ fk_r = << >>
    /\ fk_i = << >>
    /\ fkinv = << >>
    /\ bound = {}
    /\ pc = "start"
    /\ err = ""
    /\ plot = NoPlot
    /\ NoLorenz

\* "xx, f = <generator>(npts); plot_FFT(xx, f)" with the global npts = n
PlotCell(kind, n) ==
    \E amp \in 0..MaxSample :
        /\ xx' = Sampled(kind, n, amp).xx
        /\ f' = Sampled(kind, n, amp).f
        /\ plot' = plot_FFT(xx', f')
        /\ npts' = PlotLocal(n, plot'.npts)
        /\ norm' = PlotLocal(norm, plot'.norm)
        /\ fk' = PlotLocal(fk, plot'.fk)
        /\ fk_r' = PlotLocal(fk_r, plot'.fk_r)
        /\ fk_i' = PlotLocal(fk_i, plot'.fk_i)
        /\ k' = PlotLocal(k, plot'.k)
        /\ kfreq' = PlotLocal(kfreq, plot'.kfreq)
        /\ fkinv' = PlotLocal(fkinv, plot'.fkinv)
        /\ err' = plot'.err
        /\ pc' = "setup"
        /\ bound' = bound \cup {"npts", "xx", "f"}
        /\ UNCHANGED <<ofk_r, ofk_i, cutoff>>
        /\ UNCHANGED lorenz

\* the cell of lines 814-816: npts = 128, then the sine and its plot
SingleToneCell == PlotCell("sine", SingleToneN)

\* the cell of lines 853-854, which reads the global npts
CosineCell == "npts" \in bound /\ PlotCell("cosine", npts)

\* the cell of lines 891-892, which reads the global npts
ShiftCell == "npts" \in bound /\ PlotCell("sine_plus_shift", npts)

\* the cell of lines 940-944: npts = 256, then the two-tone signal
TwoToneSetup ==
    /\ npts' = TwoToneSmallN
    /\ \E amp \in 0..MaxSample :
          /\ xx' = Sampled("two_freq_sine", npts', amp).xx
          /\ f' = Sampled("two_freq_sine", npts', amp).f
    /\ bound' = bound \cup {"npts", "xx", "f"}
    /\ pc' = "setup"
    /\ err' = ""
    /\ plot' = NoPlot
    /\ UNCHANGED <<norm, fk, ofk_r, ofk_i, k, kfreq, cutoff, fk_r, fk_i,
                   fkinv>>
    /\ UNCHANGED lorenz

\* the transform cell, whatever ran before it
CellsTransform == {"npts", "xx", "f"} \subseteq bound /\ RunTransform

\* the filter cell with the notebook's threshold 0.4, whatever ran before it
CellsFilter == RunFilter(<<2, 5>>)

CellsNext ==
    \/ SingleToneCell
    \/ CosineCell
    \/ ShiftCell
    \/ TwoToneSetup
    \/ CellsTransform
    \/ CellsFilter

CellsSpec == CellsInit /\ [][CellsNext]_vars

\* ------------------------------------ the notebook, top to bottom
\* One run of the notebook's code cells in order, following the globals
\* sigma, b and r that the Lorenz functions rhs and jac read (lines 336-338
\* and 346-348) each time a library routine evaluates them.  The values of
\* the three are only compared, so each is the text of the expression that
\* was assigned.  The globals of the FFT section are not followed in this
\* run.
MaxEvals == 24     \* a library call evaluates rhs 1..MaxEvals times

\* the first lines of the notebook's nonempty code cells, in order
CodeCells ==
    <<9, 18, 88, 105, 115, 126, 142, 152, 173, 201, 222, 264, 282, 330, 369,
      388, 437, 453, 503, 534, 579, 604, 630, 658, 671, 712, 740, 814, 832,
      853, 870, 891, 915, 940, 960, 997, 1037, 1046, 1057, 1067, 1083, 1100,
      1118, 1129, 1141>>

\* the cells that assign sigma, b or r or have rhs and jac evaluated
LorenzCells == {264, 330, 388, 437, 503, 604, 1100}

\* the position of the cell that starts at the given line
CellOf(line) == CHOOSE i \in 1..Len(CodeCells) : CodeCells[i] = line

\* the cell that starts at the given line is the next to run
At(line) ==
    /\ cell < Len(CodeCells)
    /\ CodeCells[cell + 1] = line
    /\ call = 0

\* a library call of the cell that starts at the given line is in progress
In(line) ==
    /\ cell < Len(CodeCells)
    /\ CodeCells[cell + 1] = line
    /\ call > 0

Fresh ==
    /\ cell' = cell + 1
    /\ call' = 0
    /\ nev' = 0

FFTGlobals == <<npts, xx, f, norm, fk, ofk_r, ofk_i, k, kfreq, cutoff,
                fk_r, fk_i, fkinv, bound, pc, err, plot>>

\* the slip of making ode_integrate's r the global one ("global r")
OdeGlobal(global, value) == value

\* r = integrate.solve_ivp(..) inside ode_integrate (line 372) binds a
\* local r: the global r keeps its value
OdeLocal(global, value) == global

\* a fresh kernel
RunAllInit ==
    /\ npts = 0
    /\ xx = << >>
    /\ f = << >>
    /\ norm = RNaN
    /\ fk = << >>
    /\ ofk_r = << >>
    /\ ofk_i = << >>
    /\ k = << >>
    /\ kfreq = << >>
    /\ cutoff = RNaN
    /\ fk_r = << >>
    /\ fk_i = << >>
    /\ fkinv = << >>
    /\ bound = {}
    /\ pc = "start"
    /\ err = ""
    /\ plot = NoPlot
    /\ NoLorenz

\* root, r = optimize.brentq(f, 0.1, 10.0, full_output=True)  (line 270)
BrentCell ==
    /\ At(264)
    /\ r' = "RootResults"
    /\ Fresh
    /\ UNCHANGED <<sigma, b>>
    /\ UNCHANGED FFTGlobals

\* sigma = 10.0; b = 8./3.; r = 28.0; def rhs, jac, f  (lines 330-353)
LorenzCell ==
    /\ At(330)
    /\ sigma' = "10.0"
    /\ b' = "8./3."
    /\ r' = "28.0"
    /\ Fresh
    /\ UNCHANGED FFTGlobals

\* t, X = ode_integrate(..) (line 388) enters integrate.solve_ivp
OdeCall ==
    /\ At(388)
    /\ call' = 1
    /\ nev' = 0
    /\ UNCHANGED <<sigma, b, r, cell>>
    /\ UNCHANGED FFTGlobals

\* solve_ivp evaluates rhs(t, x), which reads the globals sigma, r and b
EvalRhs ==
    /\ In(388)
    /\ nev < MaxEvals
    /\ {sigma, b, r} \cap {Unbound} = {}
    /\ nev' = nev + 1
    /\ UNCHANGED <<sigma, b, r, cell, call>>
    /\ UNCHANGED FFTGlobals

\* solve_ivp returns after at least one evaluation; ode_integrate binds its
\* result to r and returns, and the rest of the cell plots
OdeReturn ==
    /\ In(388)
    /\ nev >= 1
    /\ r' = OdeLocal(r, "OdeResult")
    /\ Fresh
    /\ UNCHANGED <<sigma, b>>
    /\ UNCHANGED FFTGlobals

\* sol1 = optimize.root(f, [1., 1., 1.], jac=True)  (line 437)
RootCall ==
    /\ At(437)
    /\ call' = 1
    /\ nev' = 0
    /\ UNCHANGED <<sigma, b, r, cell>>
    /\ UNCHANGED FFTGlobals

\* optimize.root evaluates f(x), which returns rhs(0., x), jac(0., x): both
\* read the globals sigma, r and b
EvalF ==
    /\ In(437)
    /\ nev < MaxEvals
    /\ {sigma, b, r} \cap {Unbound} = {}
    /\ nev' = nev + 1
    /\ UNCHANGED <<sigma, b, r, cell, call>>
    /\ UNCHANGED FFTGlobals

\* an optimize.root returns after at least one evaluation: the next one
\* starts (lines 440, 443), or the cell ends
RootReturn ==
    /\ In(437)
    /\ nev >= 1
    /\ IF call < 3
       THEN call' = call + 1 /\ nev' = 0 /\ cell' = cell
       ELSE Fresh
    /\ UNCHANGED <<sigma, b, r>>
    /\ UNCHANGED FFTGlobals

\* sigma = 5.0*np.ones(N)  (line 519)
FitCell ==
    /\ At(503)
    /\ sigma' = "5.0*np.ones(40)"
    /\ Fresh
    /\ UNCHANGED <<b, r>>
    /\ UNCHANGED FFTGlobals

\* sigma = 5.0  (line 606)
ExpCell ==
    /\ At(604)
    /\ sigma' = "5.0"
    /\ Fresh
    /\ UNCHANGED <<b, r>>
    /\ UNCHANGED FFTGlobals

\* b = np.array([5, 7])  (line 1100)
SolveCell ==
    /\ At(1100)
    /\ b' = "np.array([5, 7])"
    /\ Fresh
    /\ UNCHANGED <<sigma, r>>
    /\ UNCHANGED FFTGlobals

\* any other cell: it assigns none of sigma, b, r and evaluates neither
\* rhs nor jac
OtherCell ==
    /\ cell < Len(CodeCells)
    /\ CodeCells[cell + 1] \notin LorenzCells
    /\ call = 0
    /\ Fresh
    /\ UNCHANGED <<sigma, b, r>>
    /\ UNCHANGED FFTGlobals

RunAllNext ==
    \/ BrentCell
    \/ LorenzCell
    \/ OdeCall
    \/ EvalRhs
    \/ OdeReturn
    \/ RootCall
    \/ EvalF
    \/ RootReturn
    \/ FitCell
    \/ ExpCell
    \/ SolveCell
    \/ OtherCell

RunAllSpec == RunAllInit /\ [][RunAllNext]_vars

\* ----------------------------------------------------------- properties
Lv == Level(npts)

Zero == CZero(Lv)

RZero == <<0, 1>>

\* N >= 1 samples on the grid x_i = i*dx, i = 0..N-1, with dx > 0
ValidSignal == npts >= 1 /\ xx[1] = 0 /\ (npts >= 2 => xx[2] > 0)

\* the grid x_i = i*dx, i = 0..N-1, with dx > 0
GridFromZero == npts >= 2 /\ xx[1] = 0 /\ xx[2] > 0

SampleSum == SumTo(f, npts)

SampleMean == CScale(CInt(Lv, SampleSum), <<1, npts>>)

Samples == Arr([i \in 1..npts |-> CInt(Lv, f[i])])

\* the cutoff c lies strictly below every nonzero frequency bin
BelowNonzeroBins(c) ==
    \A j \in 1..Len(kfreq) :
        (kfreq[j] # RZero /\ kfreq[j] # RNaN) => RGt(kfreq[j], c)

\* the coefficients of the global fk are the ones the transform cell saved
HoldsOriginal == Real(fk) = ofk_r /\ Imag(fk) = ofk_i

\* C1: round trip.  For every signal of N >= 1 samples, odd and even N
\* alike, what the inverse step of plot_FFT reconstructs from the
\* unfiltered spectrum (rfft scaled by 2/N, then divided by 2/N and passed
\* to irfft) is the N samples it was given.
RoundTripLaw ==
    (plot.called /\ ValidSignal /\ plot.fkinv # << >>) => plot.fkinv = Samples

\* C2: low-pass contract.  A run of the filter cell sets to zero (real and
\* imaginary part) every coefficient whose bin is strictly greater than the
\* cutoff and leaves every coefficient whose bin is less than or equal to
\* the cutoff as it was; a bin equal to the cutoff is kept.
FilterContract ==
    [][(pc' = "filter" /\ err' # "IndexError") =>
         \A j \in 1..Len(fk) :
            /\ RGt(kfreq[j], cutoff') =>
                  fk'[j] = Zero /\ fk_r'[j] = Zero /\ fk_i'[j] = Zero
            /\ RGe(cutoff', kfreq[j]) =>
                  fk'[j] = fk[j] /\ fk_r'[j] = CRe(fk[j])
                                 /\ fk_i'[j] = CIm(fk[j])]_vars

\* C2 witness: the filter kept a nonzero coefficient whose bin equals the
\* cutoff and zeroed a coefficient that was nonzero above the cutoff.
FilterContractWitness ==
    /\ pc = "filter"
    /\ \E j \in 1..Len(fk) : kfreq[j] = cutoff /\ fk[j] # Zero
    /\ \E j \in 1..Len(fk) :
          /\ RGt(kfreq[j], cutoff)
          /\ ofk_r[j] # Zero \/ ofk_i[j] # Zero
          /\ fk[j] = Zero

\* C3: length of the reconstruction.  For every N >= 1, odd N included,
\* what the inverse step of plot_FFT and of the filter cell returns for the
\* spectrum of an N-sample signal is exactly N samples.
ReconstructLength ==
    /\ (plot.called /\ ValidSignal /\ plot.fkinv # << >>) =>
          Len(plot.fkinv) = npts
    /\ (pc = "filter" /\ ValidSignal /\ "fkinv" \in bound) =>
          Len(fkinv) = npts

\* C4 as stated: for every cutoff strictly below the smallest nonzero bin,
\* zero and negative cutoffs included, the filter runs and zeroes every
\* coefficient of bins 1..N div 2 while it leaves the coefficient of bin 0
\* unchanged.
BelowFirstBinKeepsDC ==
    [][(pc' = "filter" /\ GridFromZero /\ BelowNonzeroBins(cutoff')) =>
         /\ err' # "IndexError"
         /\ \A j \in 2..Len(fk) : fk'[j] = Zero
         /\ fk'[1] = fk[1]]_vars

\* C4 as amended: for every cutoff strictly below the smallest nonzero bin
\* the filter runs and zeroes every coefficient of bins 1..N div 2; it
\* leaves the coefficient of bin 0 unchanged when the cutoff is zero or
\* positive, and zeroes it as well when the cutoff is negative (bin 0's
\* frequency 0 is then greater than the cutoff).
BelowFirstBinKeepsDCFromZero ==
    [][(pc' = "filter" /\ BelowNonzeroBins(cutoff')) =>
         /\ err' # "IndexError"
         /\ \A j \in 2..Len(fk) : fk'[j] = Zero
         /\ RGe(cutoff', RZero) => fk'[1] = fk[1]
         /\ (RGt(RZero, cutoff') /\ kfreq[1] = RZero) => fk'[1] = Zero]_vars

\* C4 witness: a filter run with cutoff 0 below every nonzero bin that
\* zeroed a nonzero coefficient and kept a nonzero coefficient of bin 0.
BelowFirstBinWitness ==
    /\ pc = "filter"
    /\ cutoff = RZero
    /\ BelowNonzeroBins(cutoff)
    /\ fk[1] # Zero
    /\ fk_r[1] = ofk_r[1]
    /\ \E j \in 2..Len(fk) : ofk_r[j] # Zero \/ ofk_i[j] # Zero
    /\ \A j \in 2..Len(fk) : fk[j] = Zero

\* C5: the mean.  When the filtered spectrum keeps the transform's bin-0
\* coefficient and is zero in every other bin, the filter cell reconstructs
\* N samples, each equal to the arithmetic mean of the signal.
DCOnlyGivesMean ==
    (/\ pc = "filter"
     /\ ValidSignal
     /\ fk_r[1] = ofk_r[1] /\ fk_i[1] = ofk_i[1]
     /\ \A j \in 2..Len(fk) : fk[j] = Zero)
    => fkinv = Arr([i \in 1..npts |-> SampleMean])

\* C6: no-op filter.  A run of the filter cell with a cutoff greater than
\* or equal to every frequency bin leaves every coefficient of fk as it was.
NoOpFilter ==
    [][(pc' = "filter" /\ Len(kfreq) = Len(fk)
          /\ \A j \in 1..Len(kfreq) : RGe(cutoff', kfreq[j])) =>
         fk' = fk]_vars

\* C6 witness: a filter run whose cutoff equals the largest (Nyquist) bin,
\* with a nonzero coefficient in that bin, after which fk still holds the
\* spectrum of the transform cell.
NoOpFilterWitness ==
    /\ pc = "filter"
    /\ \A j \in 1..Len(kfreq) : RGe(cutoff, kfreq[j])
    /\ kfreq[Len(kfreq)] = cutoff
    /\ fk[Len(fk)] # Zero
    /\ HoldsOriginal

\* C7: shape.  For every signal of N >= 1 samples, N = 1 included, the
\* transform cell and plot_FFT succeed in computing N div 2 + 1 coefficients
\* and as many frequency bins.
AnalyzerShape ==
    /\ (pc = "transform" /\ ValidSignal) =>
          /\ err = ""
          /\ Len(fk) = (npts \div 2) + 1
          /\ Len(kfreq) = (npts \div 2) + 1
    /\ (plot.called /\ ValidSignal) =>
          /\ Len(plot.fk) = (npts \div 2) + 1
          /\ Len(plot.kfreq) = (npts \div 2) + 1

\* C8: bin values.  On the grid x_i = i*dx the frequency the transform cell
\* and plot_FFT report for bin k is k/(N*dx): the divisor is the length N*dx
\* of the domain, not max(x) - min(x) = (N-1)*dx.
KfreqValues ==
    /\ (pc = "transform" /\ err = "" /\ GridFromZero) =>
          kfreq = Arr([j \in 1..((npts \div 2) + 1) |->
                         RNorm(j - 1, npts * xx[2])])
    /\ (plot.called /\ Len(plot.kfreq) > 0 /\ GridFromZero) =>
          plot.kfreq = Arr([j \in 1..((npts \div 2) + 1) |->
                              RNorm(j - 1, npts * xx[2])])

\* C8 witness: the transform cell ran on 4 samples spaced 2 apart and
\* reported 1/8 for bin 1 and 1/4 for bin 2.
KfreqValuesWitness ==
    /\ pc = "transform" /\ err = ""
    /\ GridFromZero /\ npts = 4 /\ xx[2] = 2
    /\ kfreq[2] = <<1, 8>> /\ kfreq[3] = <<1, 4>>

\* C9: the DC coefficient.  Bin 0 of the unfiltered spectrum has real part
\* (2/N) * (sum of the samples), twice the mean, and imaginary part 0.
DCCoefficient ==
    /\ (pc = "transform" /\ "fk" \in bound) =>
          /\ CRe(fk[1]) = CScale(CInt(Lv, SampleSum), <<2, npts>>)
          /\ CIm(fk[1]) = Zero
          /\ ofk_r[1] = CScale(SampleMean, <<2, 1>>)
          /\ ofk_i[1] = Zero
    /\ (plot.called /\ Len(plot.fk) > 0) =>
          /\ plot.fk_r[1] = CScale(SampleMean, <<2, 1>>)
          /\ plot.fk_i[1] = Zero

\* C9 witness: the transform cell ran on a signal of at least 3 samples
\* with a nonzero sum.
DCCoefficientWitness ==
    /\ pc = "transform" /\ "fk" \in bound
    /\ npts >= 3 /\ SampleSum # 0
    /\ fk[1] # Zero

\* C10 as stated: the filter does not modify the spectrum it is given;
\* after the filter cell, the spectrum fk computed by the transform cell
\* still holds every original coefficient.
FilterLeavesSpectrum == (pc = "filter" /\ GridFromZero) => HoldsOriginal

\* C10 as amended: the filter cell overwrites the spectrum fk in place, so
\* that after it every coefficient of fk above the cutoff is zero; only the
\* copies ofk_r and ofk_i taken by the transform cell still hold every
\* original coefficient.
FilterLeavesCopies ==
    (pc = "filter" /\ err # "IndexError") =>
       /\ ofk_r = Real(Normalize(rfft(f), Norm(npts)))
       /\ ofk_i = Imag(Normalize(rfft(f), Norm(npts)))
       /\ \A j \in 1..Len(fk) : RGt(kfreq[j], cutoff) => fk[j] = Zero

\* C10 witness: after a filter run, fk has lost a coefficient that ofk_r or
\* ofk_i still holds.
FilterLeavesCopiesWitness ==
    /\ pc = "filter"
    /\ ~HoldsOriginal
    /\ \E j \in 1..Len(fk) :
          fk[j] = Zero /\ (ofk_r[j] # Zero \/ ofk_i[j] # Zero)

\* C11: empty input.  Analysing a signal of length 0 fails: plot_FFT and
\* the transform cell stop with an exception that reaches the caller, and no
\* spectrum, no frequency bins and no reconstructed signal are produced.
EmptyInputFails ==
    /\ (plot.called /\ Len(f) = 0) =>
          /\ plot.err # ""
          /\ plot.fk = << >> /\ plot.k = << >> /\ plot.kfreq = << >>
          /\ plot.fkinv = << >>
    /\ (pc = "transform" /\ Len(f) = 0) =>
          /\ err # ""
          /\ bound \cap {"fk", "ofk_r", "ofk_i", "k", "kfreq", "fkinv"} = {}
          /\ ~ ENABLED Filter

\* C11 witness: plot_FFT was called with an empty signal and raised the
\* ValueError of np.fft.rfft.
EmptyInputWitness ==
    /\ plot.called
    /\ npts = 0 /\ Len(xx) = 0 /\ Len(f) = 0
    /\ plot.err = "ValueError"

\* C12: invalid spacing.  Analysing a signal whose sample spacing dx is zero
\* or negative fails with an exception instead of returning frequency bins:
\* neither plot_FFT nor the transform cell ever produces a bin sequence for
\* such a grid.
InvalidSpacingFails ==
    /\ (pc = "transform" /\ npts >= 2 /\ xx[2] <= xx[1]) =>
          err # "" /\ "kfreq" \notin bound
    /\ (plot.called /\ npts >= 2 /\ xx[2] <= xx[1]) =>
          plot.err # "" /\ plot.kfreq = << >>

\* C13: the two-tone scenario.  For 256 samples on [0, 50) of a signal whose
\* only nonzero bins are those of the tones at 0.2 and 0.5, the bins are
\* k/50 for k = 0..128, the tones sit in bins 10 and 25, and the filter cell
\* (cutoff 0.4) leaves bin 10 as it was and zeroes bin 25: bin 10 is the
\* only nonzero bin of the filtered spectrum.
TwoToneScenario ==
    /\ pc \in {"transform", "filter"} =>
          /\ kfreq = Arr([j \in 1..129 |-> RNorm(j - 1, 50)])
          /\ kfreq[11] = <<1, 5>> /\ kfreq[26] = <<1, 2>>
          /\ ofk_r[11] = CRe(f[1].a) /\ ofk_i[11] = CIm(f[1].a)
          /\ ofk_r[26] = CRe(f[1].b) /\ ofk_i[26] = CIm(f[1].b)
    /\ pc = "transform" =>
          \A j \in 1..129 : (fk[j] # CZero(ToneLevel)) <=> (j \in {11, 26})
    /\ pc = "filter" =>
          /\ fk[11] = f[1].a
          /\ fk_r[11] = ofk_r[11] /\ fk_i[11] = ofk_i[11]
          /\ fk[26] = CZero(ToneLevel)
          /\ \A j \in 1..129 : (fk[j] # CZero(ToneLevel)) <=> (j = 11)

\* C13 witness: the filter cell ran on the spectrum of the notebook's signal
\* 0.5*(sin(2 pi 0.2 x) + sin(2 pi 0.5 x)); bin 10 still holds -i/2 and
\* bin 25, which held -i/2, is zero.
TwoToneWitness ==
    /\ pc = "filter"
    /\ npts = 256 /\ Len(fk) = 129
    /\ f[1].a = HalfSine /\ f[1].b = HalfSine
    /\ fk[11] = HalfSine
    /\ ofk_i[26] # CZero(ToneLevel) /\ fk[26] = CZero(ToneLevel)

\* the smaller of two finite cutoffs
RMin(c1, c2) == IF RGt(c1, c2) THEN c2 ELSE c1

\* the spectrum of the global f, filtered once with cutoff c
FilteredOnce(c) == LowPass(Normalize(rfft(f), Norm(npts)), Mask(kfreq, c))

\* C14: filter composition.  Running the filter cell with cutoff c2 on a
\* spectrum already filtered with cutoff c1 gives the spectrum filtered once
\* with min(c1, c2), whichever of the two is smaller; run again with the
\* same cutoff, the filter cell leaves fk as it is.
FilterComposition ==
    [][(pc = "filter" /\ pc' = "filter" /\ err' # "IndexError") =>
         /\ \E c1 \in Cutoffs : fk = FilteredOnce(c1)
         /\ \A c1 \in Cutoffs :
               fk = FilteredOnce(c1) => fk' = FilteredOnce(RMin(c1, cutoff'))
         /\ cutoff' = cutoff => fk' = fk]_vars

\* C14 witness: the filter cell ran with a lower and then with a higher
\* cutoff, and fk is the spectrum filtered once with the lower one, which
\* differs from the spectrum filtered once with the higher one.
FilterCompositionWitness ==
    /\ pc = "filter" /\ err = ""
    /\ fk # FilteredOnce(cutoff)
    /\ \E c1 \in Cutoffs : RGt(cutoff, c1) /\ fk = FilteredOnce(c1)

\* C15: origin independence.  The frequency bins of a uniform grid depend
\* only on the number of points N >= 2 and the spacing dx: the bins that
\* plot_FFT and the transform cell compute for the grid x_i = x0 + i*dx are
\* the ones they compute for the grid x_i = i*dx, whatever x0 is.
OriginIndependence ==
    /\ (pc = "transform" /\ err = "" /\ npts >= 2) =>
          kfreq = Kfreq(k, npts, Grid(npts, 0, xx[2] - xx[1]))
    /\ (plot.called /\ npts >= 2) =>
          plot.kfreq = Kfreq(plot.k, npts, Grid(npts, 0, xx[2] - xx[1]))

\* (a) when the transform cell can start, npts, len(xx) and len(f) agree;
\* (b) when the filter cell can run, fk, kfreq and norm belong together:
\* as many coefficients as bins, the copies of the same transform, and
\* norm = 2/N for the size N of the signal fk was computed from
GlobalsConsistent ==
    /\ "npts" \in bound => (npts = Len(xx) /\ npts = Len(f))
    /\ {"fk", "kfreq", "norm"} \subseteq bound =>
          /\ Len(fk) = Len(kfreq)
          /\ Len(ofk_r) = Len(fk) /\ Len(ofk_i) = Len(fk)
          /\ \E n \in 1..MaxN :
                norm = Norm(n) /\ Len(fk) = (n \div 2) + 1

\* C16: consistency of the globals.  Whatever cells of the FFT section run,
\* in any order and any number of times, npts = len(xx) = len(f) whenever
\* the transform cell can start, fk, kfreq and norm come from the same run
\* of the transform cell whenever the filter cell can run, the three globals
\* change only in the transform cell (fk also in the filter cell, in place),
\* and a cell that calls plot_FFT changes none of norm, fk, ofk_r, ofk_i, k,
\* kfreq, fk_r, fk_i and fkinv.
CellGlobals ==
    [][/\ GlobalsConsistent'
       /\ pc' # "transform" => (norm' = norm /\ kfreq' = kfreq /\ k' = k)
       /\ pc' \notin {"transform", "filter"} => fk' = fk
       /\ plot'.called =>
             /\ npts' = Len(xx')
             /\ UNCHANGED <<norm, fk, ofk_r, ofk_i, k, kfreq, fk_r, fk_i,
                            fkinv>>]_vars

\* C16 witness: the filter cell ran on the spectrum of the two-tone signal
\* after a single-tone cell had replaced npts, xx and f: fk, kfreq and norm
\* are still those of the larger signal.
CellGlobalsWitness ==
    /\ pc = "filter"
    /\ npts = SingleToneN /\ Len(xx) = SingleToneN
    /\ norm = Norm(TwoToneSmallN)
    /\ Len(fk) = (TwoToneSmallN \div 2) + 1 /\ Len(kfreq) = Len(fk)
    /\ Len(fkinv) = TwoToneSmallN
    /\ err = "ValueError"

\* the values the cell of line 330 gives the Lorenz parameters
LorenzParams == sigma = "10.0" /\ b = "8./3." /\ r = "28.0"

\* C17: ordering of the rebindings.  In a run of the cells from top to
\* bottom every evaluation of rhs and jac (by solve_ivp in ode_integrate,
\* line 388, and by the optimize.root calls, lines 437-443) finds sigma = 10,
\* b = 8/3 and r = 28; r is rebound by line 270 only before the cell of line
\* 330 has set the three, and sigma and b are rebound (lines 519, 606 and
\* 1100) only after the last evaluation, when the cell of line 437 is over.
GlobalOrder ==
    [][/\ nev' > nev => LorenzParams
       /\ (r' # r /\ r' # "28.0") => cell + 1 < CellOf(330)
       /\ (sigma' # sigma /\ sigma # Unbound) => cell >= CellOf(437)
       /\ (b' # b /\ b # Unbound) => cell >= CellOf(437)
       /\ (cell >= CellOf(330) /\ cell < CellOf(437)) => LorenzParams'
       /\ (nev' > nev) => cell + 1 \in {CellOf(388), CellOf(437)}]_vars

\* C17 witness: the third optimize.root of line 443 has evaluated f twice,
\* after the brentq of line 270 and the solve_ivp of line 388, and the three
\* parameters hold the values of line 331-333.
GlobalOrderWitness ==
    /\ cell + 1 = CellOf(437)
    /\ call = 3 /\ nev >= 2
    /\ LorenzParams

====
